---- MODULE Spec2Model ----
(***************************************************************************)
(* Model of the reactive video pipeline of src/reactive_video_processor.py *)
(* (ReactiveVideoStream and VideoProcessingPipeline).                      *)
(*                                                                         *)
(* The pipeline runs on one asyncio event loop: the code between two       *)
(* awaits that suspend is one atomic step.  Every action below is one such *)
(* step of one task: a source supervisor (_process_single_source with the  *)
(* generators create_video_stream, filter_frames and batch_process it      *)
(* drives), a per-frame task (process_frame_async) or the coordinator      *)
(* (create_processing_pipeline).                                           *)
(*                                                                         *)
(* max_concurrent_tasks, batch_size and the number of frames of a source   *)
(* are parameters of the code (fixed to 20, 5 and 100 by the pipeline);    *)
(* here they are inputs drawn from small sets.  A failure of the frame     *)
(* transformation (_cpu_intensive_processing) or of the sink               *)
(* (_save_processed_frames) is an input of the step that returns from it.  *)
(***************************************************************************)
EXTENDS Integers, Sequences, FiniteSets

\* ---- bounds of the model ----
MaxSources == 2
MaxFrames == 5
MaxK == 2
MaxBatch == 3
\* frames of all sources of a run together
MaxTotalFrames == 7
\* streams given to filter_frames on its own: length and largest frame_id
MaxStreamLen == 3
MaxFrameId == 2
\* streaming API: request threads, stream ids, requests made in a run
MaxThreads == 2
MaxStreams == 1
MaxCalls == 4

SourceIds == 1..MaxSources
BatchSizes == (0 - 1)..MaxBatch
\* a batch has at most batch_size frames, and one frame when batch_size <= 0
TaskIds == 1..(IF MaxBatch > 1 THEN MaxBatch ELSE 1)

VARIABLES
    max_concurrent_tasks, \* ReactiveVideoStream.max_concurrent_tasks (K)
    batch_size,           \* batch_process's batch_size
    numFrames,            \* frames a source produces (range(...) of create_video_stream)
    video_sources,        \* number of sources given to create_processing_pipeline
    semaphore,            \* ReactiveVideoStream.semaphore._value (free slots)
    waiters,              \* ReactiveVideoStream.semaphore._waiters, in arrival order
    cpc,                  \* position of create_processing_pipeline
    report,               \* the dict it returns, as a 1-element sequence once returned
    results,              \* gather's result per source ("None" or "Exception")
    processed_count,      \* VideoProcessingPipeline.processed_count
    error_count,          \* VideoProcessingPipeline.error_count
    pc,                   \* position of each _process_single_source task
    bp,                   \* which yield of batch_process the supervisor is at
    pos,                  \* frame_id create_video_stream produces next
    batch,                \* batch_process's accumulator `batch`
    tasks,                \* process_frame_async tasks of the last gather of a source
    finished,             \* history: those tasks' indices in the order they ended
    completed,            \* history: number of frames of the source processed so far
    lifecycle,            \* history: states the supervisor task went through
    admitted,             \* history: raw batches handed to gather
    emitted,              \* history: processed batches yielded by batch_process
    sunk,                 \* history: batches _save_processed_frames returned for
    counted,              \* history: what the source added to processed_count
    failure,              \* history: first failure injected into the source
    sinkFailAt            \* history: index of the batch the sink failed on (0: none)

\* filter_frames run on its own
VARIABLES
    fstream,              \* the frames of the stream given to filter_frames
    fpred,                \* the predicate given to filter_frames
    fpos,                 \* per generator: frames it has taken from its stream
    fout                  \* per generator: frames it has yielded

\* streaming_api.py: the VideoStreamer and the threads serving requests
VARIABLES
    active_streams,       \* streamer.active_streams: stream id -> info
    stream_lock,          \* streamer.stream_lock: the thread holding it, 0 when free
    calls,                \* requests received so far
    now,                  \* the clock: readings of datetime.now() so far
    tpc,                  \* per thread: position in the handler it runs
    treq,                 \* per thread: the request it serves (op, stream_id, source)
    ret,                  \* per thread: the value its handler returns
    listed,               \* per thread: the streams list_streams has collected
    tsnap,                \* history: active_streams when the thread took the lock
    balance,              \* history: per id, True starts minus True stops returned
    gstopped              \* history: a stop of the id returned True while the thread generates

vars == <<max_concurrent_tasks, batch_size, numFrames, video_sources, semaphore, waiters, cpc,
          report, results, processed_count, error_count, pc, bp, pos, batch, tasks,
          finished, completed, lifecycle, admitted, emitted, sunk, counted, failure, sinkFailAt,
          fstream, fpred, fpos, fout,
          active_streams, stream_lock, calls, now, tpc, treq, ret, listed, tsnap, balance,
          gstopped>>

apiVars == <<active_streams, stream_lock, calls, now, tpc, treq, ret, listed, tsnap, balance,
             gstopped>>

Threads == 1..MaxThreads
StreamIds == 1..MaxStreams
Sources == {"default", "camera"}

filterVars == <<fstream, fpred, fpos, fout>>

config == <<max_concurrent_tasks, batch_size, numFrames>>
coord == <<cpc, report, results>>

\* ---- data ----
VideoFrame(id) == [frame_id |-> id, data |-> <<"frame_data", id>>]

CpuIntensiveProcessing(data) == <<"processed">> \o data

ProcessedFrame(frame) ==
    [frame_id |-> frame.frame_id, processed_data |-> CpuIntensiveProcessing(frame.data)]

\* mutant: the filter lets every frame pass
PredicateAll(frame) == TRUE

\* the supervisor's filter: lambda frame: frame.frame_id % 2 == 0
Predicate(frame) == frame.frame_id % 2 = 0

NewTask(frame) == [frame |-> frame, st |-> "wait", result |-> <<>>]

SpawnTasks(b) == [i \in 1..Len(b) |-> NewTask(b[i])]

\* ---- asyncio.gather as the code uses it ----
\* gather is done when every awaitable has ended or, without return_exceptions,
\* as soon as one of them has raised (the others keep running).
GatherReady(outs, return_exceptions) ==
    \/ \A i \in DOMAIN outs : outs[i] \in {"done", "err"}
    \/ ~return_exceptions /\ \E i \in DOMAIN outs : outs[i] = "err"

GatherRaises(outs, return_exceptions) ==
    ~return_exceptions /\ \E i \in DOMAIN outs : outs[i] = "err"

\* the results of one batch's tasks, in the order of the awaitables
\* mutant: results collected as the tasks complete
BatchGatherResultsAsCompleted(s) ==
    [k \in DOMAIN finished[s] |-> tasks[s][finished[s][k]].result[1]]

BatchGatherResults(s) == [i \in DOMAIN tasks[s] |-> tasks[s][i].result[1]]

\* mutant: one task list shared by all sources
RECURSIVE OutcomesUpTo(_)
OutcomesUpTo(n) ==
    IF n = 0 THEN <<>> ELSE OutcomesUpTo(n - 1) \o [i \in DOMAIN tasks[n] |-> tasks[n][i].st]

BatchOutcomesShared(s) == OutcomesUpTo(MaxSources)

BatchOutcomes(s) == [i \in DOMAIN tasks[s] |-> tasks[s][i].st]

\* gather(*tasks) of batch_process: no return_exceptions
BatchReturnExceptions == FALSE

\* mutant: return_exceptions left out
PipelineReturnExceptionsOff == FALSE

\* gather(*tasks, return_exceptions=True) of create_processing_pipeline
PipelineReturnExceptions == TRUE

SourceOutcome(s) ==
    IF pc[s] = "done" THEN "done" ELSE IF pc[s] = "failed" THEN "err" ELSE "pending"

PipelineOutcomes == [s \in 1..video_sources |-> SourceOutcome(s)]

\* mutant: the exceptions are dropped from the list
CollectResultsDropFailed(outs) ==
    SelectSeq([s \in DOMAIN outs |-> IF outs[s] = "err" THEN "Exception" ELSE "None"],
              LAMBDA r : r = "None")

\* the list gather returns: a task's exception or its return value (None)
CollectResults(outs) == [s \in DOMAIN outs |-> IF outs[s] = "err" THEN "Exception" ELSE "None"]

\* ---- the semaphore of process_frame_async ----
InitialSlots(k) == k

\* asyncio.Semaphore as the runtime implements it: acquire() takes a slot at
\* once when the semaphore is not locked and queues a future otherwise;
\* release() increments the value and hands the slot to the first queued
\* future that is not done, which its task finds taken when it resumes.
Waiter(s, i) == [src |-> s, task |-> i, woken |-> FALSE]

Queued(ws, s, i) == \E j \in DOMAIN ws : ws[j].src = s /\ ws[j].task = i

\* locked(): no free slot, or a future still in the queue
Locked(value, ws) == value = 0 \/ ws # <<>>

\* mutant: one task too many is let in
CanEnterOffByOne == semaphore >= 0

\* `async with self.semaphore` enters at once when the semaphore is not locked
CanEnter == ~Locked(semaphore, waiters)

\* _wake_up_next(): the first future that is not done gets the slot
WakeUpNext(value, ws) ==
    LET pending == {j \in DOMAIN ws : ~ws[j].woken} IN
    IF pending = {} THEN [value |-> value, waiters |-> ws]
    ELSE LET j == CHOOSE k \in pending : \A m \in pending : k <= m
         IN  [value |-> value - 1, waiters |-> [ws EXCEPT ![j].woken = TRUE]]

\* release()
Release(value, ws) == WakeUpNext(value + 1, ws)

\* mutant: release only after a normal return
SlotsAfterExitLeak(value, ws, outcome) ==
    IF outcome = "err" THEN [value |-> value, waiters |-> ws] ELSE Release(value, ws)

\* leaving `async with` releases the slot, on return and on exception: the
\* value and the queue afterwards
SlotsAfterExit(value, ws, outcome) == Release(value, ws)

\* the tasks of s to which release() has handed a slot and which have not
\* resumed yet
HandedOver(s) == {i \in DOMAIN tasks[s] :
                    \E j \in DOMAIN waiters :
                        waiters[j].src = s /\ waiters[j].task = i /\ waiters[j].woken}

\* the tasks of s that hold a slot: acquire() has succeeded for them and they
\* have not released
InProgress(s) == {i \in DOMAIN tasks[s] : tasks[s][i].st = "run"} \cup HandedOver(s)

\* ---- initial state: the pipeline is constructed, not yet run ----
Configured(k, b, n) ==
    /\ max_concurrent_tasks = k
    /\ batch_size = b
    /\ numFrames = n
    /\ video_sources = 0
    /\ semaphore = InitialSlots(max_concurrent_tasks)
    /\ waiters = <<>>
    /\ cpc = "start"
    /\ report = <<>>
    /\ results = <<>>
    /\ processed_count = 0
    /\ error_count = 0
    /\ pc = [s \in SourceIds |-> "none"]
    /\ bp = [s \in SourceIds |-> "loop"]
    /\ pos = [s \in SourceIds |-> 0]
    /\ batch = [s \in SourceIds |-> <<>>]
    /\ tasks = [s \in SourceIds |-> <<>>]
    /\ finished = [s \in SourceIds |-> <<>>]
    /\ completed = [s \in SourceIds |-> 0]
    /\ lifecycle = [s \in SourceIds |-> <<>>]
    /\ admitted = [s \in SourceIds |-> <<>>]
    /\ emitted = [s \in SourceIds |-> <<>>]
    /\ sunk = [s \in SourceIds |-> <<>>]
    /\ counted = [s \in SourceIds |-> 0]
    /\ failure = [s \in SourceIds |-> "none"]
    /\ sinkFailAt = [s \in SourceIds |-> 0]

\* no filter_frames generator outside the pipeline
FilterIdle ==
    /\ fstream = <<>>
    /\ fpred = "even"
    /\ fpos = <<0, 0, 0>>
    /\ fout = <<<<>>, <<>>, <<>>>>

NoRequest == [op |-> "none", stream_id |-> 1, source |-> "default"]

\* VideoStreamer.__init__, and no request received yet
ApiIdle ==
    /\ active_streams = <<>>
    /\ stream_lock = 0
    /\ calls = 0
    /\ now = 0
    /\ tpc = [t \in Threads |-> "idle"]
    /\ treq = [t \in Threads |-> NoRequest]
    /\ ret = [t \in Threads |-> "none"]
    /\ listed = [t \in Threads |-> <<>>]
    /\ tsnap = [t \in Threads |-> <<>>]
    /\ balance = [id \in StreamIds |-> 0]
    /\ gstopped = [t \in Threads |-> FALSE]

Init ==
    /\ \E k \in 1..MaxK : \E b \in BatchSizes : \E n \in 0..MaxFrames : Configured(k, b, n)
    /\ FilterIdle
    /\ ApiIdle

\* ---- create_processing_pipeline: one task per source, then gather ----
Launch(n) ==
    /\ cpc = "start"
    /\ video_sources' = n
    /\ pc' = [s \in SourceIds |-> IF s <= n THEN "created" ELSE "none"]
    /\ lifecycle' = [s \in SourceIds |-> IF s <= n THEN <<"Created">> ELSE <<>>]
    /\ cpc' = "gather"
    /\ UNCHANGED <<config, filterVars, apiVars, semaphore, waiters, report, results, processed_count, error_count,
                   bp, pos, batch, tasks, finished, completed, admitted, emitted, sunk,
                   counted, failure, sinkFailAt>>

CreatePipeline(n) ==
    /\ n * numFrames <= MaxTotalFrames
    /\ Launch(n)

\* ---- the supervisor's moves inside one step ----
\* The supervisor of s continues with position p, accumulator b and history lc.
Suspend(s, p, b, lc, at, where, spawn) ==
    /\ pc' = [pc EXCEPT ![s] = at]
    /\ bp' = [bp EXCEPT ![s] = where]
    /\ pos' = [pos EXCEPT ![s] = p]
    /\ batch' = [batch EXCEPT ![s] = b]
    /\ lifecycle' = [lifecycle EXCEPT ![s] = IF at = "done" THEN Append(lc, "Completed") ELSE lc]
    /\ tasks' = [tasks EXCEPT ![s] = IF spawn THEN SpawnTasks(b) ELSE @]
    /\ finished' = [finished EXCEPT ![s] = IF spawn THEN <<>> ELSE @]
    /\ admitted' = [admitted EXCEPT ![s] = IF spawn THEN Append(@, b) ELSE @]

\* batch_process asks its stream for the next frame: create_video_stream sleeps
\* before the next frame or is exhausted; at exhaustion the remainder is flushed.
\* mutant: the remainder is never flushed
FlushNever(b) == FALSE

FlushNeeded(b) == b # <<>>

RequestNext(s, p, b, lc) ==
    IF p < numFrames THEN Suspend(s, p, b, lc, "pull", "loop", FALSE)
    ELSE IF FlushNeeded(b) THEN Suspend(s, p, b, lc, "gather", "flush", TRUE)
    ELSE Suspend(s, p, b, lc, "done", bp[s], FALSE)

\* mutant: > for >=
BatchFullOffByOne(b) == Len(b) > batch_size

BatchFull(b) == Len(b) >= batch_size

AfterAppend(s, p, b, lc) ==
    IF BatchFull(b) THEN Suspend(s, p, b, lc, "gather", "loop", TRUE)
    ELSE RequestNext(s, p, b, lc)

\* mutant: the failure is not counted
FailUncounted(s) ==
    /\ error_count' = error_count
    /\ pc' = [pc EXCEPT ![s] = "failed"]
    /\ lifecycle' = [lifecycle EXCEPT ![s] = Append(@, "Failed")]

\* the except clause of _process_single_source
Fail(s) ==
    /\ error_count' = error_count + 1
    /\ pc' = [pc EXCEPT ![s] = "failed"]
    /\ lifecycle' = [lifecycle EXCEPT ![s] = Append(@, "Failed")]

\* ---- _process_single_source ----
\* first step of the task: wires the generators and pulls for the first time
Start(s) ==
    /\ pc[s] = "created"
    /\ RequestNext(s, 0, <<>>, Append(lifecycle[s], "Running"))
    /\ UNCHANGED <<config, filterVars, apiVars, video_sources, semaphore, waiters, coord, processed_count, error_count,
                   completed, emitted, sunk, counted, failure, sinkFailAt>>

\* create_video_stream's sleep is over: the frame goes through filter_frames
\* into batch_process
Pull(s) ==
    /\ pc[s] = "pull"
    /\ LET frame == VideoFrame(pos[s]) IN
         IF Predicate(frame)
         THEN AfterAppend(s, pos[s] + 1, Append(batch[s], frame), lifecycle[s])
         ELSE RequestNext(s, pos[s] + 1, batch[s], lifecycle[s])
    /\ UNCHANGED <<config, filterVars, apiVars, video_sources, semaphore, waiters, coord, processed_count, error_count,
                   completed, emitted, sunk, counted, failure, sinkFailAt>>

\* ---- process_frame_async ----
\* first step of the task: it takes a slot and hands the frame to the
\* executor, or queues in acquire()
Acquire(s, i) ==
    /\ i \in DOMAIN tasks[s]
    /\ tasks[s][i].st = "wait"
    /\ ~Queued(waiters, s, i)
    /\ IF CanEnter
       THEN /\ semaphore' = semaphore - 1
            /\ tasks' = [tasks EXCEPT ![s][i].st = "run"]
            /\ waiters' = waiters
       ELSE /\ waiters' = Append(waiters, Waiter(s, i))
            /\ UNCHANGED <<semaphore, tasks>>
    /\ UNCHANGED <<config, filterVars, apiVars, video_sources, coord, processed_count, error_count, pc, bp, pos,
                   batch, finished, completed, lifecycle, admitted, emitted, sunk, counted,
                   failure, sinkFailAt>>

\* the task resumes in acquire() with the slot handed to it: it leaves the
\* queue, passes a free slot on to the next future, and hands the frame to the
\* executor
AcquireResumed(s, i) ==
    /\ i \in HandedOver(s)
    /\ LET j == CHOOSE k \in DOMAIN waiters : waiters[k].src = s /\ waiters[k].task = i
           rest == [k \in 1..(Len(waiters) - 1) |-> IF k < j THEN waiters[k] ELSE waiters[k + 1]]
           after == IF semaphore > 0 THEN WakeUpNext(semaphore, rest)
                    ELSE [value |-> semaphore, waiters |-> rest]
       IN /\ semaphore' = after.value
          /\ waiters' = after.waiters
    /\ tasks' = [tasks EXCEPT ![s][i].st = "run"]
    /\ UNCHANGED <<config, filterVars, apiVars, video_sources, coord, processed_count, error_count, pc, bp, pos,
                   batch, finished, completed, lifecycle, admitted, emitted, sunk, counted,
                   failure, sinkFailAt>>

\* the worker thread has returned or raised; the task leaves the semaphore
ProcessFrameReturn(s, i, ok) ==
    /\ i \in DOMAIN tasks[s]
    /\ tasks[s][i].st = "run"
    /\ LET outcome == IF ok THEN "done" ELSE "err"
           frame == tasks[s][i].frame
           after == SlotsAfterExit(semaphore, waiters, outcome)
       IN /\ semaphore' = after.value
          /\ waiters' = after.waiters
          /\ tasks' = [tasks EXCEPT ![s][i] =
                 [frame |-> frame, st |-> outcome,
                  result |-> IF ok THEN <<ProcessedFrame(frame)>> ELSE <<>>]]
    /\ finished' = [finished EXCEPT ![s] = Append(@, i)]
    /\ completed' = [completed EXCEPT ![s] = IF ok THEN @ + 1 ELSE @]
    /\ failure' = [failure EXCEPT ![s] = IF ~ok /\ @ = "none" THEN "processor" ELSE @]
    /\ UNCHANGED <<config, filterVars, apiVars, video_sources, coord, processed_count, error_count, pc, bp, pos,
                   batch, lifecycle, admitted, emitted, sunk, counted, sinkFailAt>>

\* ---- batch_process's gather returns to the supervisor ----
\* mutant: counts batches, not frames
CountedBatches(count, processed_batch) == count + 1

CountedAfterBatch(count, processed_batch) == count + Len(processed_batch)

GatherReturn(s) ==
    /\ pc[s] = "gather"
    /\ GatherReady(BatchOutcomes(s), BatchReturnExceptions)
    /\ IF GatherRaises(BatchOutcomes(s), BatchReturnExceptions)
       THEN /\ Fail(s)
            /\ UNCHANGED <<processed_count, emitted, counted>>
       ELSE LET processed_batch == BatchGatherResults(s) IN
            /\ emitted' = [emitted EXCEPT ![s] = Append(@, processed_batch)]
            /\ processed_count' = CountedAfterBatch(processed_count, processed_batch)
            /\ counted' = [counted EXCEPT ![s] = CountedAfterBatch(@, processed_batch)]
            /\ pc' = [pc EXCEPT ![s] = "save"]
            /\ UNCHANGED <<error_count, lifecycle>>
    /\ UNCHANGED <<config, filterVars, apiVars, video_sources, semaphore, waiters, coord, bp, pos, batch, tasks, finished,
                   completed, admitted, sunk, failure, sinkFailAt>>

\* ---- _save_processed_frames returns to the supervisor ----
SaveReturn(s, ok) ==
    /\ pc[s] = "save"
    /\ IF ok
       THEN /\ sunk' = [sunk EXCEPT ![s] = Append(@, emitted[s][Len(emitted[s])])]
            /\ IF bp[s] = "loop"
               THEN RequestNext(s, pos[s], <<>>, lifecycle[s])
               ELSE Suspend(s, pos[s], batch[s], lifecycle[s], "done", bp[s], FALSE)
            /\ UNCHANGED <<error_count, failure, sinkFailAt>>
       ELSE /\ Fail(s)
            /\ failure' = [failure EXCEPT ![s] = IF @ = "none" THEN "sink" ELSE @]
            /\ sinkFailAt' = [sinkFailAt EXCEPT ![s] = Len(emitted[s])]
            /\ UNCHANGED <<sunk, bp, pos, batch, tasks, finished, admitted>>
    /\ UNCHANGED <<config, filterVars, apiVars, video_sources, semaphore, waiters, coord, processed_count, completed,
                   emitted, counted>>

\* ---- create_processing_pipeline's gather returns ----
Count(outs, v) == Cardinality({i \in DOMAIN outs : outs[i] = v})

Report ==
    /\ cpc = "gather"
    /\ GatherReady(PipelineOutcomes, PipelineReturnExceptions)
    /\ IF GatherRaises(PipelineOutcomes, PipelineReturnExceptions)
       THEN /\ cpc' = "raised"
            /\ UNCHANGED <<results, report>>
       ELSE /\ results' = CollectResults(PipelineOutcomes)
            /\ report' = <<[successful |-> Count(results', "None"),
                            failed |-> Count(results', "Exception"),
                            total_frames |-> processed_count]>>
            /\ cpc' = "returned"
    /\ UNCHANGED <<config, filterVars, apiVars, video_sources, semaphore, waiters, processed_count, error_count, pc, bp,
                   pos, batch, tasks, finished, completed, lifecycle, admitted, emitted, sunk, counted, failure,
                   sinkFailAt>>

Next ==
    \/ \E n \in 0..MaxSources : CreatePipeline(n)
    \/ \E s \in SourceIds : Start(s)
    \/ \E s \in SourceIds : Pull(s)
    \/ \E s \in SourceIds : \E i \in TaskIds : Acquire(s, i)
    \/ \E s \in SourceIds : \E i \in TaskIds : AcquireResumed(s, i)
    \/ \E s \in SourceIds : \E i \in TaskIds : \E ok \in BOOLEAN : ProcessFrameReturn(s, i, ok)
    \/ \E s \in SourceIds : GatherReturn(s)
    \/ \E s \in SourceIds : \E ok \in BOOLEAN : SaveReturn(s, ok)
    \/ Report

Spec == Init /\ [][Next]_vars

\* ---- vocabulary of the properties ----
ActiveSources == 1..video_sources

Running == UNION {{<<s, i>> : i \in InProgress(s)} : s \in SourceIds}

AllTasksEnded == \A s \in SourceIds : \A i \in DOMAIN tasks[s] : tasks[s][i].st \in {"done", "err"}

Ids(b) == [i \in DOMAIN b |-> b[i].frame_id]

StrictlyIncreasing(q) == \A i \in DOMAIN q : \A j \in DOMAIN q : i < j => q[i] < q[j]

RECURSIVE Flatten(_)
Flatten(bs) == IF bs = <<>> THEN <<>> ELSE Ids(Head(bs)) \o Flatten(Tail(bs))

\* the even ids below n, in order: what survives the supervisor's filter
ExpectedIds(n) == [k \in 1..((n + 1) \div 2) |-> 2 * (k - 1)]

CeilDiv(a, b) == (a + b - 1) \div b

Terminal(s) == pc[s] \in {"done", "failed"}

\* C1: at most max_concurrent_tasks frame transformations, counted over all
\* sources together, hold a slot (are inside the semaphore-guarded section,
\* or have been handed the slot by a release and not resumed yet) at any time
C1_BoundedConcurrency == Cardinality(Running) <= max_concurrent_tasks

\* C1 witness: all slots are held, by tasks of two different sources, while
\* another task is waiting for a slot
C1_Witness ==
    /\ max_concurrent_tasks = 2
    /\ Cardinality(Running) = max_concurrent_tasks
    /\ InProgress(1) # {} /\ InProgress(2) # {}
    /\ \E s \in SourceIds : \E i \in DOMAIN tasks[s] : tasks[s][i].st = "wait"

\* C2: free slots plus transformations holding a slot always equal K (every
\* acquisition, taken by the task or handed to it by a release, is matched by
\* exactly one release, also for a failed transformation), and when every
\* processing task has ended all K slots are free
C2_SlotsBalanced ==
    /\ semaphore + Cardinality(Running) = max_concurrent_tasks
    /\ AllTasksEnded => semaphore = max_concurrent_tasks

\* C2 witness: a transformation has failed, its supervisor has received the
\* failure, every task has ended and all slots are free
C2_Witness ==
    /\ AllTasksEnded
    /\ semaphore = max_concurrent_tasks
    /\ \E s \in SourceIds :
         /\ pc[s] = "failed"
         /\ Len(tasks[s]) >= 2
         /\ \E i \in DOMAIN tasks[s] : tasks[s][i].st = "err"

\* C3: a source into which no failure was injected never fails, whatever
\* happens to the other sources, and when the pipeline has returned it is a
\* success that has processed and sunk exactly its filtered frames
C3_FailureIsolation ==
    \A s \in ActiveSources :
        failure[s] = "none" =>
            /\ pc[s] # "failed"
            /\ cpc = "returned" =>
                 /\ pc[s] = "done"
                 /\ results[s] = "None"
                 /\ Flatten(emitted[s]) = ExpectedIds(numFrames)
                 /\ sunk[s] = emitted[s]

\* C3 witness: the pipeline has returned, one source failed (processor or
\* sink) and the other, without failure, sunk more than one batch
C3_Witness ==
    /\ cpc = "returned"
    /\ \E s \in ActiveSources : \E t \in ActiveSources :
         /\ failure[s] # "none" /\ pc[s] = "failed"
         /\ failure[t] = "none" /\ Len(sunk[t]) >= 2

\* C4: create_processing_pipeline never raises; its report has
\* successful + failed = number of sources and failed = number of failed
\* supervisors (= number of sources when all fail)
C4_ReportAlways ==
    /\ cpc # "raised"
    /\ cpc = "returned" =>
         /\ Len(report) = 1
         /\ report[1].successful + report[1].failed = video_sources
         /\ report[1].failed = Cardinality({s \in ActiveSources : pc[s] = "failed"})
         /\ report[1].successful = Cardinality({s \in ActiveSources : pc[s] = "done"})
         /\ (\A s \in ActiveSources : pc[s] = "failed") => report[1].failed = video_sources

\* C4 witness: two sources, both failed, and the report is returned
C4_Witness ==
    /\ cpc = "returned"
    /\ video_sources = 2
    /\ \A s \in ActiveSources : pc[s] = "failed"
    /\ report[1].failed = 2

\* C5: with batch_size B >= 1 no empty batch is ever emitted, and a source
\* that completed (N frames reached batch_process, none failed) has emitted
\* ceil(N / B) batches, all of B frames but the last, which has N mod B
\* frames, or B when B divides N
C5_BatchCounts ==
    \A s \in ActiveSources :
        batch_size >= 1 =>
            LET N == Len(ExpectedIds(numFrames))
                B == batch_size
                n == Len(emitted[s])
            IN /\ \A j \in 1..n : Len(emitted[s][j]) >= 1
               /\ pc[s] = "done" =>
                    /\ n = CeilDiv(N, B)
                    /\ \A j \in 1..(n - 1) : Len(emitted[s][j]) = B
                    /\ n > 0 => Len(emitted[s][n]) = (IF N % B = 0 THEN B ELSE N % B)

\* C5 witness: a completed source with several batches, the last one partial
C5_Witness ==
    \E s \in ActiveSources :
        /\ batch_size >= 2
        /\ pc[s] = "done"
        /\ Len(emitted[s]) >= 2
        /\ Len(emitted[s][Len(emitted[s])]) < batch_size

\* C6: every emitted batch carries, position by position, the ids of the raw
\* frames admitted to it, in strictly increasing order, whatever the order in
\* which its tasks completed
C6_OrderPreserved ==
    \A s \in ActiveSources :
        /\ Len(emitted[s]) <= Len(admitted[s])
        /\ \A j \in DOMAIN emitted[s] :
             /\ Ids(emitted[s][j]) = Ids(admitted[s][j])
             /\ StrictlyIncreasing(Ids(emitted[s][j]))

\* C6 witness: a batch of three frames has just been emitted whose tasks
\* completed in the reverse of the input order
C6_Witness ==
    \E s \in ActiveSources :
        /\ pc[s] = "save"
        /\ finished[s] = <<3, 2, 1>>
        /\ Len(emitted[s][Len(emitted[s])]) = 3

\* C7 (as claimed): with batch_size <= 0 nothing is pulled from a source,
\* nothing is processed and no batch is emitted
C7_BadBatchSizeRejected ==
    batch_size <= 0 =>
        \A s \in SourceIds : pos[s] = 0 /\ tasks[s] = <<>> /\ emitted[s] = <<>>

\* C8: when the sink fails on a batch of a source (the second one in the
\* claim's scenario), the source has failed and what it added to
\* processed_count is the number of its frames whose processing had completed
\* by then, the rejected batch included; a source without injected failure is,
\* once the pipeline has returned, a success that counted all its filtered frames
C8_SinkFailureCounts ==
    \A s \in ActiveSources :
        /\ sinkFailAt[s] >= 1 =>
             /\ pc[s] = "failed"
             /\ counted[s] = completed[s]
             /\ counted[s] = Len(Flatten(emitted[s]))
             /\ Len(sunk[s]) = sinkFailAt[s] - 1
        /\ (failure[s] = "none" /\ cpc = "returned") =>
             /\ results[s] = "None"
             /\ counted[s] = Len(ExpectedIds(numFrames))

\* C8 witness: the sink failed on the second batch of source 1, source 2 had
\* no failure, and the pipeline has returned
C8_Witness ==
    /\ cpc = "returned"
    /\ video_sources = 2
    /\ sinkFailAt[1] = 2
    /\ results[1] = "Exception"
    /\ counted[1] > Len(Flatten(sunk[1]))
    /\ failure[2] = "none"
    /\ counted[2] >= 2

\* ---- fair scheduling: the event loop keeps running the tasks that are ready
\* and the worker threads finish their jobs, so as long as some step of the
\* pipeline is possible one is taken.  (Fairness towards each single task
\* implies this; nothing more is needed here.) ----
PipelineStep ==
    \/ \E s \in SourceIds : Start(s) \/ Pull(s) \/ GatherReturn(s)
    \/ \E s \in SourceIds : \E ok \in BOOLEAN : SaveReturn(s, ok)
    \/ \E s \in SourceIds : \E i \in TaskIds : Acquire(s, i)
    \/ \E s \in SourceIds : \E i \in TaskIds : AcquireResumed(s, i)
    \/ \E s \in SourceIds : \E i \in TaskIds : \E ok \in BOOLEAN : ProcessFrameReturn(s, i, ok)
    \/ Report

FairSpec == Spec /\ WF_vars(PipelineStep)

LifecyclePaths ==
    {<<>>, <<"Created">>, <<"Created", "Running">>,
     <<"Created", "Running", "Completed">>, <<"Created", "Running", "Failed">>}

IsPrefix(a, b) == Len(a) <= Len(b) /\ SubSeq(b, 1, Len(a)) = a

Last(q) == q[Len(q)]

LifecycleOk ==
    /\ \A s \in SourceIds :
         /\ lifecycle[s] \in LifecyclePaths
         /\ pc[s] = "done" <=> (lifecycle[s] # <<>> /\ Last(lifecycle[s]) = "Completed")
         /\ pc[s] = "failed" <=> (lifecycle[s] # <<>> /\ Last(lifecycle[s]) = "Failed")
    /\ cpc = "returned" =>
         /\ Len(results) = video_sources
         /\ \A s \in ActiveSources :
              /\ Terminal(s)
              /\ results[s] = (IF pc[s] = "failed" THEN "Exception" ELSE "None")

LifecycleStep ==
    /\ \A s \in SourceIds :
         /\ IsPrefix(lifecycle[s], lifecycle'[s])
         /\ Terminal(s) => pc'[s] = pc[s]
    /\ cpc = "returned" => results' = results /\ cpc' = cpc

\* C9: a supervisor goes Created -> Running -> Completed or
\* Created -> Running -> Failed and nowhere else, its terminal state never
\* changes, and the coordinator's result list has exactly one outcome per
\* source, the one of that source's terminal state
C9_SupervisorLifecycle == []LifecycleOk /\ [][LifecycleStep]_vars

\* C9 witness: the coordinator has collected the outcomes of one completed
\* and one failed supervisor
C9_Witness ==
    /\ cpc = "returned"
    /\ Len(results) = 2
    /\ \E s \in ActiveSources : lifecycle[s] = <<"Created", "Running", "Completed">>
    /\ \E s \in ActiveSources : lifecycle[s] = <<"Created", "Running", "Failed">>

\* C10: under fair scheduling a started pipeline returns its report and
\* every supervisor that was created reaches a terminal state, whatever
\* fails in the other sources
C10_Terminates ==
    /\ (cpc = "gather") ~> (cpc = "returned")
    /\ \A s \in SourceIds : (pc[s] = "created") ~> Terminal(s)

\* C10 witness: the pipeline has returned although one supervisor failed on
\* a processor failure, and the other one completed batches larger than the
\* number of slots
C10_Witness ==
    /\ cpc = "returned"
    /\ \E s \in ActiveSources : \E t \in ActiveSources :
         /\ pc[s] = "failed" /\ failure[s] = "processor"
         /\ pc[t] = "done"
         /\ \E j \in DOMAIN emitted[t] : Len(emitted[t][j]) > max_concurrent_tasks

RECURSIVE SumOver(_, _)
SumOver(f, n) == IF n = 0 THEN 0 ELSE f[n] + SumOver(f, n - 1)

Unfinished(s) == {i \in DOMAIN tasks[s] : tasks[s][i].st \in {"wait", "run"}}

\* C13: a completed supervisor has exhausted its source; every frame that
\* passes the filter was processed exactly once, keeps its id and payload,
\* is in exactly one emitted batch, and the batches were sunk once each, in
\* the order they were emitted
C13_CompletedMeansAllSunk ==
    \A s \in ActiveSources :
        pc[s] = "done" =>
            /\ pos[s] = numFrames
            /\ Flatten(emitted[s]) = ExpectedIds(numFrames)
            /\ completed[s] = Len(ExpectedIds(numFrames))
            /\ Unfinished(s) = {}
            /\ sunk[s] = emitted[s]
            /\ \A j \in DOMAIN emitted[s] : \A i \in DOMAIN emitted[s][j] :
                 emitted[s][j][i].processed_data =
                     <<"processed", "frame_data", emitted[s][j][i].frame_id>>

\* C13 witness: a completed source whose three filtered frames went to the
\* sink in two batches
C13_Witness ==
    \E s \in ActiveSources :
        /\ pc[s] = "done"
        /\ Len(sunk[s]) = 2
        /\ Flatten(sunk[s]) = <<0, 2, 4>>

\* C14 (as claimed): once a supervisor has failed, no frame transformation of
\* its source holds or takes a slot, no further frame is pulled from its
\* source and no batch of it is emitted or sunk
C14_NoWorkAfterFailure ==
    /\ [](\A s \in SourceIds : pc[s] = "failed" => InProgress(s) = {})
    /\ [][\A s \in SourceIds :
            pc[s] = "failed" =>
                /\ pos'[s] = pos[s]
                /\ emitted'[s] = emitted[s]
                /\ sunk'[s] = sunk[s]
                /\ \A i \in DOMAIN tasks[s] :
                     tasks[s][i].st = "wait" => tasks'[s][i].st = "wait"]_vars

\* C17 (as claimed): batch n+1 of a source is handed to processing, and its
\* frames are pulled, only after batch n was processed and sunk, and at most
\* batch_size frames of a source are waiting for or holding a slot
C17_Backpressure ==
    \A s \in ActiveSources :
        /\ Len(admitted[s]) <= Len(sunk[s]) + 1
        /\ pc[s] = "pull" => Len(admitted[s]) = Len(sunk[s]) /\ Unfinished(s) = {}
        /\ Cardinality(Unfinished(s)) <= batch_size

\* C17, for batch sizes >= 1 only: the same statement holds
C17_BackpressureValidSizes == batch_size >= 1 => C17_Backpressure

\* C18: no update of the shared counters is lost: processed_count is the
\* number of frames in all emitted batches of all sources and error_count the
\* number of failed supervisors, at every moment and in the returned report
C18_CountersExact ==
    LET frames == [s \in SourceIds |-> Len(Flatten(emitted[s]))]
        nfailed == Cardinality({s \in ActiveSources : pc[s] = "failed"})
    IN /\ processed_count = SumOver(frames, MaxSources)
       /\ error_count = nfailed
       /\ cpc = "returned" =>
            /\ report[1].total_frames = SumOver(frames, MaxSources)
            /\ error_count = report[1].failed

\* C18 witness: the pipeline has returned; both sources emitted batches, one
\* of them failed afterwards
C18_Witness ==
    /\ cpc = "returned"
    /\ video_sources = 2
    /\ \A s \in ActiveSources : emitted[s] # <<>>
    /\ error_count = 1
    /\ report[1].total_frames >= 3

\* ---- runs without failure, with the scenario of two sources of 10 frames
\* and batches of 3 next to the bounded configurations ----
NoFailureInit == Init \/ (FilterIdle /\ ApiIdle /\ \E k \in 1..MaxK : Configured(k, 3, 10))

RunScenario == numFrames = 10 /\ batch_size = 3 /\ Launch(2)

NoFailureNext ==
    \/ \E n \in 0..MaxSources : CreatePipeline(n)
    \/ RunScenario
    \/ \E s \in SourceIds : Start(s)
    \/ \E s \in SourceIds : Pull(s)
    \/ \E s \in SourceIds : \E i \in TaskIds : Acquire(s, i)
    \/ \E s \in SourceIds : \E i \in TaskIds : AcquireResumed(s, i)
    \/ \E s \in SourceIds : \E i \in TaskIds : ProcessFrameReturn(s, i, TRUE)
    \/ \E s \in SourceIds : GatherReturn(s)
    \/ \E s \in SourceIds : SaveReturn(s, TRUE)
    \/ Report

NoFailureSpec == NoFailureInit /\ [][NoFailureNext]_vars

BatchSizesOf(bs) == [j \in DOMAIN bs |-> Len(bs[j])]

\* C11: without failure the report has successful = number of sources,
\* failed = 0 and total_frames = the kept (even-id) frames of all sources;
\* two sources of 10 frames with batch size 3 emit batches of sizes [3, 2]
\* each and total_frames = 10
C11_NoFailureReport ==
    cpc = "returned" =>
        /\ report[1].successful = video_sources
        /\ report[1].failed = 0
        /\ report[1].total_frames = video_sources * Len(ExpectedIds(numFrames))
        /\ (video_sources = 2 /\ numFrames = 10 /\ batch_size = 3) =>
             /\ \A s \in ActiveSources : BatchSizesOf(emitted[s]) = <<3, 2>>
             /\ report[1].total_frames = 10

\* C11 witness: the scenario's run has returned its report
C11_Witness ==
    /\ cpc = "returned"
    /\ video_sources = 2 /\ numFrames = 10 /\ batch_size = 3
    /\ report[1].successful = 2
    /\ report[1].total_frames = 10

\* ---- filter_frames on its own: three generators.  Generators 1 and 2
\* filter the same stream with the same predicate, generator 3 filters what
\* generator 1 has yielded, once generator 1 is exhausted ----
Predicates == {"even", "odd", "all", "none"}

PredicateHolds(p, frame) ==
    CASE p = "even" -> Predicate(frame)
      [] p = "odd" -> ~Predicate(frame)
      [] p = "all" -> TRUE
      [] p = "none" -> FALSE

Generators == 1..3

RECURSIVE StreamsOfLen(_)
StreamsOfLen(n) ==
    IF n = 0 THEN {<<>>}
    ELSE {Append(q, VideoFrame(id)) : q \in StreamsOfLen(n - 1), id \in 0..MaxFrameId}

Streams == UNION {StreamsOfLen(n) : n \in 0..MaxStreamLen}

\* the pipeline is constructed and not run
PipelineIdle == Configured(1, 1, 0)

FilterInit ==
    /\ PipelineIdle
    /\ ApiIdle
    /\ fstream \in Streams
    /\ fpred \in Predicates
    /\ fpos = <<0, 0, 0>>
    /\ fout = <<<<>>, <<>>, <<>>>>

FilterInput(g) == IF g = 3 THEN fout[1] ELSE fstream

FilterStarted(g) == g = 3 => fpos[1] = Len(fstream)

\* mutant: the test is negated
FilterYieldNegated(out, frame, p) == IF ~PredicateHolds(p, frame) THEN Append(out, frame) ELSE out

\* `if predicate(frame): yield frame`
FilterYield(out, frame, p) == IF PredicateHolds(p, frame) THEN Append(out, frame) ELSE out

\* one turn of `async for frame in stream` of generator g
FilterStep(g) ==
    /\ FilterStarted(g)
    /\ fpos[g] < Len(FilterInput(g))
    /\ fpos' = [fpos EXCEPT ![g] = @ + 1]
    /\ fout' = [fout EXCEPT ![g] = FilterYield(@, FilterInput(g)[fpos[g] + 1], fpred)]
    /\ UNCHANGED <<fstream, fpred, apiVars>>
    /\ UNCHANGED <<config, video_sources, semaphore, waiters, coord, processed_count, error_count, pc,
                   bp, pos, batch, tasks, finished, completed, lifecycle, admitted, emitted,
                   sunk, counted, failure, sinkFailAt>>

FilterNext == \E g \in Generators : FilterStep(g)

FilterSpec == FilterInit /\ [][FilterNext]_vars

FilterExhausted(g) == FilterStarted(g) /\ fpos[g] = Len(FilterInput(g))

\* the subsequence of q whose frames satisfy p
Satisfying(q, p) == SelectSeq(q, LAMBDA f : PredicateHolds(p, f))

\* C12: at every moment a filter_frames generator has yielded exactly the
\* frames it has taken that satisfy the predicate, in input order; two
\* generators over the same stream and predicate end with the same id
\* sequence, and filtering the filtered stream again leaves it unchanged
C12_FilterSubsequence ==
    /\ \A g \in Generators :
         FilterStarted(g) => fout[g] = Satisfying(SubSeq(FilterInput(g), 1, fpos[g]), fpred)
    /\ (FilterExhausted(1) /\ FilterExhausted(2)) => Ids(fout[1]) = Ids(fout[2])
    /\ FilterExhausted(3) => Ids(fout[3]) = Ids(fout[1])

\* C12 witness: all three generators are exhausted on a stream of which the
\* predicate keeps some frames and drops others
C12_Witness ==
    /\ \A g \in Generators : FilterExhausted(g)
    /\ Len(fstream) = 3
    /\ Len(fout[3]) = 2

\* ---- streaming_api.py: VideoStreamer served by request threads
\* (app.run(threaded=True)); a step is one access to active_streams or to
\* stream_lock ----
Ops == {"start", "stop", "list", "info", "get"}

pipelineVars == <<config, video_sources, semaphore, waiters, coord, processed_count, error_count, pc,
                  bp, pos, batch, tasks, finished, completed, lifecycle, admitted, emitted,
                  sunk, counted, failure, sinkFailAt>>

ApiInit == PipelineIdle /\ FilterIdle /\ ApiIdle

\* the dict entry start_stream writes
StreamInfo(source, time) == [source |-> source, start_time |-> time, status |-> "active"]

\* `stream_id in self.active_streams`
Registered(streams, id) == id \in DOMAIN streams

\* `self.active_streams[stream_id] = info`
WithStream(streams, id, info) ==
    [x \in DOMAIN streams \cup {id} |-> IF x = id THEN info ELSE streams[x]]

\* `del self.active_streams[stream_id]`
WithoutStream(streams, id) == [x \in DOMAIN streams \ {id} |-> streams[x]]

\* the streams in the order of the dict, which is the order they were
\* registered in: list_streams' entry for each
ListEntries(streams) ==
    LET ids == DOMAIN streams
        Rank(id) == 1 + Cardinality({x \in ids : streams[x].start_time < streams[id].start_time})
        At(k) == CHOOSE id \in ids : Rank(id) = k
    IN  [k \in 1..Cardinality(ids) |->
           [stream_id |-> At(k), source |-> streams[At(k)].source,
            start_time |-> streams[At(k)].start_time, status |-> streams[At(k)].status,
            stream_url |-> <<"/api/v1/stream/", At(k)>>]]

FirstStep(op) ==
    CASE op \in {"start", "stop", "list"} -> "enter"
      [] op = "info" -> "info_check"
      [] op = "get" -> "get_check"

\* a request reaches an idle thread
Request(t, op, id, source) ==
    /\ tpc[t] = "idle"
    /\ calls < MaxCalls
    /\ calls' = calls + 1
    /\ treq' = [treq EXCEPT ![t] = [op |-> op, stream_id |-> id, source |-> source]]
    /\ ret' = [ret EXCEPT ![t] = "none"]
    /\ listed' = [listed EXCEPT ![t] = <<>>]
    /\ tpc' = [tpc EXCEPT ![t] = FirstStep(op)]
    /\ UNCHANGED <<active_streams, stream_lock, now, tsnap, balance, gstopped>>
    /\ UNCHANGED <<pipelineVars, filterVars>>

\* mutant: the lock excludes nobody
LockNeverHeld == TRUE

\* threading.Lock: acquire blocks while another thread holds it
LockFree == stream_lock = 0

AfterEnter(op) ==
    CASE op = "start" -> "start_check"
      [] op = "stop" -> "stop_check"
      [] op = "list" -> "list_read"

\* `with self.stream_lock:` entered by start_stream, stop_stream or
\* list_streams
Enter(t) ==
    /\ tpc[t] = "enter"
    /\ LockFree
    /\ stream_lock' = t
    /\ tsnap' = [tsnap EXCEPT ![t] = active_streams]
    /\ tpc' = [tpc EXCEPT ![t] = AfterEnter(treq[t].op)]
    /\ UNCHANGED <<active_streams, calls, now, listed, treq, ret, balance, gstopped>>
    /\ UNCHANGED <<pipelineVars, filterVars>>

\* start_stream: `if stream_id not in self.active_streams:`, else `return False`
StartCheck(t) ==
    /\ tpc[t] = "start_check"
    /\ IF ~Registered(active_streams, treq[t].stream_id)
       THEN /\ tpc' = [tpc EXCEPT ![t] = "start_set"]
            /\ ret' = ret
       ELSE /\ tpc' = [tpc EXCEPT ![t] = "exit"]
            /\ ret' = [ret EXCEPT ![t] = "False"]
    /\ UNCHANGED <<active_streams, stream_lock, calls, now, listed, treq, tsnap, balance, gstopped>>
    /\ UNCHANGED <<pipelineVars, filterVars>>

\* start_stream: the entry is written, `return True`
StartSet(t) ==
    /\ tpc[t] = "start_set"
    /\ now' = now + 1
    /\ active_streams' = WithStream(active_streams, treq[t].stream_id,
                                    StreamInfo(treq[t].source, now'))
    /\ ret' = [ret EXCEPT ![t] = "True"]
    /\ tpc' = [tpc EXCEPT ![t] = "exit"]
    /\ UNCHANGED <<stream_lock, calls, listed, treq, tsnap, balance, gstopped>>
    /\ UNCHANGED <<pipelineVars, filterVars>>

\* stop_stream: `if stream_id in self.active_streams:`, else `return False`
StopCheck(t) ==
    /\ tpc[t] = "stop_check"
    /\ IF Registered(active_streams, treq[t].stream_id)
       THEN /\ tpc' = [tpc EXCEPT ![t] = "stop_del"]
            /\ ret' = ret
       ELSE /\ tpc' = [tpc EXCEPT ![t] = "exit"]
            /\ ret' = [ret EXCEPT ![t] = "False"]
    /\ UNCHANGED <<active_streams, stream_lock, calls, now, listed, treq, tsnap, balance, gstopped>>
    /\ UNCHANGED <<pipelineVars, filterVars>>

\* stop_stream: `del self.active_streams[stream_id]`, `return True`; del of a
\* missing key raises KeyError
StopDel(t) ==
    /\ tpc[t] = "stop_del"
    /\ IF Registered(active_streams, treq[t].stream_id)
       THEN /\ active_streams' = WithoutStream(active_streams, treq[t].stream_id)
            /\ ret' = [ret EXCEPT ![t] = "True"]
       ELSE /\ active_streams' = active_streams
            /\ ret' = [ret EXCEPT ![t] = "KeyError"]
    /\ tpc' = [tpc EXCEPT ![t] = "exit"]
    /\ UNCHANGED <<stream_lock, calls, now, listed, treq, tsnap, balance, gstopped>>
    /\ UNCHANGED <<pipelineVars, filterVars>>

\* list_streams: the loop over active_streams.items(), inside the lock
ListRead(t) ==
    /\ tpc[t] = "list_read"
    /\ listed' = [listed EXCEPT ![t] = ListEntries(active_streams)]
    /\ ret' = [ret EXCEPT ![t] = "streams"]
    /\ tpc' = [tpc EXCEPT ![t] = "exit"]
    /\ UNCHANGED <<active_streams, stream_lock, calls, now, treq, tsnap, balance, gstopped>>
    /\ UNCHANGED <<pipelineVars, filterVars>>

InGenerator(t) == tpc[t] \in {"gen_check", "gen_yield"}

BalanceAfter(b, op, id, r) ==
    IF r # "True" THEN b
    ELSE [b EXCEPT ![id] = IF op = "start" THEN @ + 1 ELSE @ - 1]

\* the `with` block is left: the lock is released and the method returns;
\* the thread keeps the returned value only
Exit(t) ==
    /\ tpc[t] = "exit"
    /\ stream_lock' = 0
    /\ tpc' = [tpc EXCEPT ![t] = "idle"]
    /\ balance' = BalanceAfter(balance, treq[t].op, treq[t].stream_id, ret[t])
    /\ gstopped' = [u \in Threads |->
                      \/ gstopped[u]
                      \/ /\ treq[t].op = "stop"
                         /\ ret[t] = "True"
                         /\ InGenerator(u)
                         /\ treq[u].stream_id = treq[t].stream_id]
    /\ treq' = [treq EXCEPT ![t] = NoRequest]
    /\ tsnap' = [tsnap EXCEPT ![t] = <<>>]
    /\ UNCHANGED <<active_streams, calls, now, listed, ret>>
    /\ UNCHANGED <<pipelineVars, filterVars>>

\* get_stream_info: `if stream_id not in streamer.active_streams:` -> 404
InfoCheck(t) ==
    /\ tpc[t] = "info_check"
    /\ IF ~Registered(active_streams, treq[t].stream_id)
       THEN /\ tpc' = [tpc EXCEPT ![t] = "idle"]
            /\ ret' = [ret EXCEPT ![t] = "not-found"]
            /\ treq' = [treq EXCEPT ![t] = NoRequest]
       ELSE /\ tpc' = [tpc EXCEPT ![t] = "info_read"]
            /\ ret' = ret
            /\ treq' = treq
    /\ UNCHANGED <<active_streams, stream_lock, calls, now, listed, tsnap, balance, gstopped>>
    /\ UNCHANGED <<pipelineVars, filterVars>>

\* the outcome of `info = streamer.active_streams[stream_id]` and the
\* response built from it: the status, or KeyError (the request ends in an
\* internal server error)
InfoOutcome(streams, id) == IF Registered(streams, id) THEN "status" ELSE "error"

\* get_stream_info: the entry is read, without the lock
InfoRead(t) ==
    /\ tpc[t] = "info_read"
    /\ ret' = [ret EXCEPT ![t] = InfoOutcome(active_streams, treq[t].stream_id)]
    /\ tpc' = [tpc EXCEPT ![t] = "idle"]
    /\ treq' = [treq EXCEPT ![t] = NoRequest]
    /\ UNCHANGED <<active_streams, stream_lock, calls, now, listed, tsnap, balance, gstopped>>
    /\ UNCHANGED <<pipelineVars, filterVars>>

\* get_stream: 404, or a response that iterates generate_stream(stream_id)
GetCheck(t) ==
    /\ tpc[t] = "get_check"
    /\ IF ~Registered(active_streams, treq[t].stream_id)
       THEN /\ tpc' = [tpc EXCEPT ![t] = "idle"]
            /\ ret' = [ret EXCEPT ![t] = "not-found"]
            /\ treq' = [treq EXCEPT ![t] = NoRequest]
       ELSE /\ tpc' = [tpc EXCEPT ![t] = "gen_check"]
            /\ ret' = [ret EXCEPT ![t] = "stream"]
            /\ treq' = treq
    /\ UNCHANGED <<active_streams, stream_lock, calls, now, listed, tsnap, balance, gstopped>>
    /\ UNCHANGED <<pipelineVars, filterVars>>

\* generate_stream: `while stream_id in self.active_streams:`
GenCheck(t) ==
    /\ tpc[t] = "gen_check"
    /\ IF Registered(active_streams, treq[t].stream_id)
       THEN /\ tpc' = [tpc EXCEPT ![t] = "gen_yield"]
            /\ UNCHANGED <<treq, gstopped>>
       ELSE /\ tpc' = [tpc EXCEPT ![t] = "idle"]
            /\ treq' = [treq EXCEPT ![t] = NoRequest]
            /\ gstopped' = [gstopped EXCEPT ![t] = FALSE]
    /\ UNCHANGED <<active_streams, stream_lock, calls, now, listed, ret, tsnap, balance>>
    /\ UNCHANGED <<pipelineVars, filterVars>>

\* generate_stream: a frame is yielded, then time.sleep(0.033)
GenYield(t) ==
    /\ tpc[t] = "gen_yield"
    /\ tpc' = [tpc EXCEPT ![t] = "gen_check"]
    /\ UNCHANGED <<active_streams, stream_lock, calls, now, listed, treq, ret, tsnap, balance, gstopped>>
    /\ UNCHANGED <<pipelineVars, filterVars>>

GenStep(t) == GenCheck(t) \/ GenYield(t)

ApiNext ==
    \E t \in Threads :
        \/ \E op \in Ops : \E id \in (IF op = "list" THEN {1} ELSE StreamIds) :
             \E source \in (IF op = "start" THEN Sources ELSE {"default"}) :
               Request(t, op, id, source)
        \/ Enter(t)
        \/ StartCheck(t)
        \/ StartSet(t)
        \/ StopCheck(t)
        \/ StopDel(t)
        \/ ListRead(t)
        \/ Exit(t)
        \/ InfoCheck(t)
        \/ InfoRead(t)
        \/ GetCheck(t)
        \/ GenCheck(t)
        \/ GenYield(t)

ApiSpec == ApiInit /\ [][ApiNext]_vars

\* the thread running a generator is scheduled again and again
ApiFairSpec == ApiSpec /\ \A t \in Threads : WF_vars(GenStep(t))

\* calls of op on id that have set their return value to True and not yet returned
Returning(op, id) ==
    {t \in Threads : tpc[t] = "exit" /\ treq[t].op = op /\ treq[t].stream_id = id
                     /\ ret[t] = "True"}

\* the entries of streams other than id's
Others(streams, id) == WithoutStream(streams, id)

\* what a call about to return has done, against the registry it found when
\* it took the lock
CallLinearized(t) ==
    LET id == treq[t].stream_id
        was == Registered(tsnap[t], id)
    IN  /\ ret[t] \in {"True", "False"}
        /\ ret[t] = "False" => active_streams = tsnap[t]
        /\ treq[t].op = "start" =>
             /\ ret[t] = "True" <=> ~was
             /\ ret[t] = "True" =>
                  /\ Registered(active_streams, id)
                  /\ active_streams[id].source = treq[t].source
                  /\ active_streams[id].status = "active"
                  /\ Others(active_streams, id) = Others(tsnap[t], id)
        /\ treq[t].op = "stop" =>
             /\ ret[t] = "True" <=> was
             /\ ret[t] = "True" => active_streams = WithoutStream(tsnap[t], id)

\* C15: a start_stream or stop_stream call returns True exactly when it found
\* the id unregistered (registered) and has registered (removed) it, a call
\* returning False has left the registry unchanged, and for every id the
\* starts that returned True exceed the stops that returned True by one while
\* the id is registered and by none otherwise, so of concurrent calls on one
\* id exactly one returns True
C15_RegistryLinearizable ==
    /\ \A t \in Threads :
         (tpc[t] = "exit" /\ treq[t].op \in {"start", "stop"}) => CallLinearized(t)
    /\ \A id \in StreamIds :
         balance[id] + Cardinality(Returning("start", id)) - Cardinality(Returning("stop", id))
           = IF Registered(active_streams, id) THEN 1 ELSE 0

\* C15 witness: two start_stream calls on the same unregistered id are in
\* flight together; one has registered the id and is about to return True
\* while the other waits for the lock
C15_Witness ==
    \E t, u \in Threads :
        /\ t # u
        /\ treq[t].op = "start" /\ treq[u].op = "start"
        /\ treq[t].stream_id = treq[u].stream_id
        /\ tpc[t] = "exit" /\ ret[t] = "True"
        /\ ~Registered(tsnap[t], treq[t].stream_id)
        /\ tpc[u] = "enter"

\* C16: an info request ends with the status of the stream or with
\* not-found, never with another error ("error" is returned by
\* get_stream_info only, "KeyError" by stop_stream only)
C16_InfoStatusOrNotFound ==
    \A t \in Threads : ret[t] \in {"none", "True", "False", "streams", "stream", "status", "not-found"}

\* C19: once a stop_stream of its id has returned True, a running generator
\* ends
C19_GeneratorEnds ==
    \A t \in Threads : (InGenerator(t) /\ gstopped[t]) ~> ~InGenerator(t)

\* without a later start_stream of the same id the generator does end: it
\* runs on only while the id is registered again
GeneratorEndsUnlessRestarted ==
    \A t \in Threads :
        (InGenerator(t) /\ gstopped[t]) ~>
            (~InGenerator(t) \/ Registered(active_streams, treq[t].stream_id))

====
